---- MODULE Spec2Model ----
(***************************************************************************)
(* State-machine model of GUI_quiz.py (class QuizApp).                     *)
(*                                                                         *)
(* The program is a Tk application: __init__ loads quiz_questions.json,    *)
(* builds three answer buttons and a Next button, and loads the first      *)
(* question.  Afterwards the Tk main loop dispatches button clicks to      *)
(* check_answer(i) and next_question().  A click on a button whose state   *)
(* is "disabled" is dropped by Tk; an exception raised inside a callback   *)
(* is reported by Tk and the main loop goes on, whereas an exception       *)
(* raised inside __init__ ends the program.                                *)
(*                                                                         *)
(* Python lists are 0-based, TLA+ sequences 1-based: element k of a        *)
(* Python list is element k+1 of the sequence that models it.              *)
(***************************************************************************)
EXTENDS Integers, Sequences, FiniteSets, TLC

\* ---------------------------------------------------------------- bounds
MaxQuestions == 2     \* longest question list drawn for quiz_questions.json
MaxAlt       == 4     \* most alternatives a record of the file may carry
MaxTotal     == 10    \* largest total_questions fed to show_final_results alone

\* ------------------------------------------------------ program constants
NumButtons == 3       \* for i in range(3)

VARIABLES
    pc,                      \* "main" | "mainloop" | "exited" | "crashed"
    source,                  \* what quiz_questions.json holds
    has_state,               \* TRUE once lines 37-39 have run
    quiz_questions,          \* self.quiz_questions
    score,                   \* self.score
    total_questions,         \* self.total_questions
    current_question_index,  \* self.current_question_index
    question_label,          \* text of self.question_label
    alternative_buttons,     \* self.alternative_buttons: [text, state] each
    feedback_label,          \* text of self.feedback_label
    score_label,             \* the number shown by self.score_label
    next_button,             \* state of self.next_button
    messagebox_shown,        \* the message box the program has put up
    final_text,              \* <<>> or <<[score, total, message]>>
    event,                   \* the last user event and what became of it
    nCorrect,                \* answers that compared equal (line 152)
    nIncorrect,              \* answers that compared unequal (line 156)
    read_index               \* index of the last quiz_questions[...] read, -1 if none

vars == <<pc, source, has_state, quiz_questions, score, total_questions,
          current_question_index, question_label, alternative_buttons,
          feedback_label, score_label, next_button, messagebox_shown,
          final_text, event, nCorrect, nIncorrect, read_index>>

\* ------------------------------------------------- the question source file
AltRows == << <<"a", "b", "c", "d", "e">>,
              <<"x", "y", "z", "w", "v">>,
              <<"p", "q", "r", "s", "t">> >>

QuestionNames == <<"Q1", "Q2", "Q3">>

AltText(k, j) == AltRows[((k - 1) % Len(AltRows)) + 1][((j - 1) % 5) + 1]

QuestionText(k) == QuestionNames[((k - 1) % Len(QuestionNames)) + 1]

\* One record of the file, at position k, with n alternatives.
Record(k, n, c) ==
    [question       |-> QuestionText(k),
     alternatives   |-> [j \in 1..n |-> AltText(k, j)],
     correct_answer |-> c]

\* The shapes a record is drawn from: 2..MaxAlt alternatives, and a
\* correct_answer that may be negative, past the end of the alternatives or
\* past the last button.
Shapes == (2..MaxAlt) \X (-1..NumButtons)

QuestionLists ==
    UNION { { [k \in 1..len |-> Record(k, sh[k][1], sh[k][2])] :
                sh \in [1..len -> Shapes] } : len \in 0..MaxQuestions }

Sources ==
    {[kind |-> "missing", data |-> <<>>], [kind |-> "invalid", data |-> <<>>]}
    \cup { [kind |-> "list", data |-> qs] : qs \in QuestionLists }

\* ------------------------------------------------------------ Python lists
\* lst[k] raises IndexError unless -len <= k < len.
PyInRange(n, k) == (-n <= k) /\ (k < n)

\* The 1-based position that lst[k] reads.
PyPos(n, k) == IF k < 0 THEN n + k + 1 ELSE k + 1

\* ------------------------------------------------------------------ events
NoEvent == [op |-> "none", arg |-> -1, result |-> "none"]

Ev(op, arg, result) == [op |-> op, arg |-> arg, result |-> result]

\* --------------------------------------------------------- feedback texts
NoFeedback == [msg |-> "", text |-> ""]

FeedbackCorrect == [msg |-> "Correct!", text |-> ""]

FeedbackIncorrect(t) == [msg |-> "Incorrect! The correct answer was: ", text |-> t]

\* ------------------------------------------------------------ result texts
MsgPerfect == "Congratulations! You've passed the quiz with a perfect score."

MsgPass == "You've achieved a good score."

MsgFail == "You've failed the quiz. Better luck next time!"

\* ------------------------------------------------------------------- Init
\* Before `app = QuizApp(root)`: only the file on disk is decided.
Init ==
    /\ pc = "main"
    /\ source \in Sources
    /\ has_state = FALSE
    /\ quiz_questions = <<>>
    /\ score = 0
    /\ total_questions = 0
    /\ current_question_index = 0
    /\ question_label = ""
    /\ alternative_buttons = <<>>
    /\ feedback_label = NoFeedback
    /\ score_label = 0
    /\ next_button = "none"
    /\ messagebox_shown = "none"
    /\ final_text = <<>>
    /\ event = NoEvent
    /\ nCorrect = 0
    /\ nIncorrect = 0
    /\ read_index = -1

\* ---------------------------------------------------------- setup_widgets
\* Three answer buttons with empty text (Tk's default state is "normal")
\* and a Next button created with state="disabled".
NewButtons == [b \in 1..NumButtons |-> [text |-> "", state |-> "normal"]]

NewNextButton == "disabled"

\* ---------------------------------------------------------- load_question
\* quiz_questions[index] raises IndexError when index is past the list;
\* alternative_buttons[i] raises IndexError at the first alternative that
\* has no button.
LoadQuestionRaises(qs, index) ==
    \/ ~PyInRange(Len(qs), index)
    \/ Len(qs[PyPos(Len(qs), index)].alternatives) > NumButtons

\* The label after load_question: set once the record has been read.
LoadedLabel(qs, index, old) ==
    IF PyInRange(Len(qs), index)
    THEN qs[PyPos(Len(qs), index)].question
    ELSE old

\* The buttons after load_question: all re-enabled first; then button i gets
\* alternative i for every alternative reached before the loop ends or raises.
LoadedButtons(qs, index, old) ==
    [b \in 1..NumButtons |->
        [state |-> "normal",
         text  |-> IF /\ PyInRange(Len(qs), index)
                      /\ b <= Len(qs[PyPos(Len(qs), index)].alternatives)
                   THEN qs[PyPos(Len(qs), index)].alternatives[b]
                   ELSE old[b].text]]

\* A load_question that leaves the Next button as it finds it.
NextAfterLoad_Kept(old) == old

\* Line 126: the Next button after load_question, whatever it was.
NextAfterLoad(old) == "disabled"

\* load_question as a step on the widgets, for the question at `index`.
load_question(qs, index, oldButtons, oldNext) ==
    /\ feedback_label' = NoFeedback
    /\ next_button' = NextAfterLoad(oldNext)
    /\ read_index' = index
    /\ question_label' = LoadedLabel(qs, index, question_label)
    /\ alternative_buttons' = LoadedButtons(qs, index, oldButtons)

\* --------------------------------------------------------------- __init__
\* `app = QuizApp(root)`: the whole constructor, load_question included.
\* Only the missing file handled: no `except json.JSONDecodeError` clause.
LoadFails_OnlyMissing(src) == src.kind = "missing"

\* Lines 24-34: open() raises FileNotFoundError or json.load() raises
\* json.JSONDecodeError; either handler shows the error, destroys the root
\* and returns.
LoadFails(src) == src.kind \in {"missing", "invalid"}

\* Lines 28 and 32: the text of the error box.
LoadErrorMessage(src) ==
    IF src.kind = "missing" THEN "quiz_questions.json not found!"
    ELSE "Invalid format in quiz_questions.json!"

\* A total that counts one question too many.
TotalOf_OffByOne(qs) == Len(qs) + 1

\* Line 38: self.total_questions = len(self.quiz_questions)
TotalOf(qs) == Len(qs)

Construct ==
    /\ pc = "main"
    /\ IF LoadFails(source)
       THEN /\ messagebox_shown' = LoadErrorMessage(source)
            /\ pc' = "exited"
            /\ event' = Ev("init", -1, "load_error")
            /\ UNCHANGED <<has_state, quiz_questions, score, total_questions,
                           current_question_index, question_label,
                           alternative_buttons, feedback_label, score_label,
                           next_button, read_index>>
       ELSE /\ quiz_questions' = source.data
            /\ has_state' = TRUE
            /\ score' = 0
            /\ total_questions' = TotalOf(source.data)
            /\ current_question_index' = 0
            /\ score_label' = 0
            /\ load_question(source.data, 0, NewButtons, NewNextButton)
            /\ IF LoadQuestionRaises(source.data, 0)
               THEN pc' = "crashed" /\ event' = Ev("init", -1, "raised")
               ELSE pc' = "mainloop" /\ event' = Ev("init", -1, "ok")
            /\ UNCHANGED messagebox_shown
    /\ UNCHANGED <<source, final_text, nCorrect, nIncorrect>>

\* ----------------------------------------------------------- check_answer
CurrentQuestion == quiz_questions[current_question_index + 1]

\* Line 158: question_data["alternatives"][correct_answer_index]
CorrectTextRaises(q) == ~PyInRange(Len(q.alternatives), q.correct_answer)

\* Line 161: self.alternative_buttons[correct_answer_index]
CorrectButtonRaises(q) == ~PyInRange(NumButtons, q.correct_answer)

CheckAnswerRaises(q, user_answer) ==
    /\ user_answer # q.correct_answer
    /\ (CorrectTextRaises(q) \/ CorrectButtonRaises(q))

\* A check_answer without the penalty of line 157.
ScoreAfter_NoPenalty(s, q, user_answer) ==
    IF user_answer = q.correct_answer THEN s + 1 ELSE s

\* A check_answer whose penalty is two points.
ScoreAfter_DoublePenalty(s, q, user_answer) ==
    IF user_answer = q.correct_answer THEN s + 1 ELSE s - 2

ScoreAfter(s, q, user_answer) ==
    IF user_answer = q.correct_answer THEN s + 1 ELSE s - 1

\* A feedback that quotes the alternative the user picked.
FeedbackAfter_UserText(q, user_answer, old) ==
    IF user_answer = q.correct_answer THEN FeedbackCorrect
    ELSE IF CorrectTextRaises(q) THEN old
    ELSE FeedbackIncorrect(IF user_answer < Len(q.alternatives)
                           THEN q.alternatives[user_answer + 1]
                           ELSE "")

FeedbackAfter(q, user_answer, old) ==
    IF user_answer = q.correct_answer THEN FeedbackCorrect
    ELSE IF CorrectTextRaises(q) THEN old
    ELSE FeedbackIncorrect(
           q.alternatives[PyPos(Len(q.alternatives), q.correct_answer)])

\* A check_answer that leaves the answer buttons enabled.
DisableAll_Skipped(buttons) == buttons

\* Lines 146-147: every answer button disabled, texts kept.
DisableAll(buttons) ==
    [b \in 1..Len(buttons) |-> [buttons[b] EXCEPT !.state = "disabled"]]

check_answer(user_answer) ==
    LET q == CurrentQuestion IN
    /\ alternative_buttons' = DisableAll(alternative_buttons)
    /\ read_index' = current_question_index
    /\ score' = ScoreAfter(score, q, user_answer)
    /\ nCorrect' = IF user_answer = q.correct_answer
                   THEN nCorrect + 1 ELSE nCorrect
    /\ nIncorrect' = IF user_answer = q.correct_answer
                     THEN nIncorrect ELSE nIncorrect + 1
    /\ feedback_label' = FeedbackAfter(q, user_answer, feedback_label)
    /\ IF CheckAnswerRaises(q, user_answer)
       THEN /\ UNCHANGED <<score_label, next_button>>
            /\ event' = Ev("submit", user_answer, "raised")
       ELSE /\ score_label' = score'
            /\ next_button' = "normal"
            /\ event' = Ev("submit", user_answer, "ok")
    /\ UNCHANGED <<pc, source, has_state, quiz_questions, total_questions,
                   current_question_index, question_label, messagebox_shown,
                   final_text>>

\* A click on answer button i (0-based, as the lambda passes it).
ClickAlternative(i) ==
    /\ pc = "mainloop"
    /\ IF alternative_buttons[i + 1].state = "normal"
       THEN check_answer(i)
       ELSE /\ event' = Ev("submit", i, "ignored")
            /\ UNCHANGED <<pc, source, has_state, quiz_questions, score,
                           total_questions, current_question_index,
                           question_label, alternative_buttons,
                           feedback_label, score_label, next_button,
                           messagebox_shown, final_text, nCorrect, nIncorrect,
                           read_index>>

\* ----------------------------------------------------- show_final_results
\* The Pass threshold of line 184 made strict.
result_message_Strict(s, total) ==
    IF s = total THEN MsgPerfect
    ELSE IF s > total \div 2 THEN MsgPass
    ELSE MsgFail

\* The branches of lines 182-185 in the other order.
result_message_PassFirst(s, total) ==
    IF s >= total \div 2 THEN MsgPass
    ELSE IF s = total THEN MsgPerfect
    ELSE MsgFail

result_message(s, total) ==
    IF s = total THEN MsgPerfect
    ELSE IF s >= total \div 2 THEN MsgPass
    ELSE MsgFail

\* A show_final_results without the root.destroy() of line 192.
PcAfterResults_StillOpen == "mainloop"

\* Line 192: root.destroy() ends the main loop.
PcAfterResults == "exited"

show_final_results ==
    /\ final_text' = <<[score   |-> score,
                        total   |-> total_questions,
                        message |-> result_message(score, total_questions)]>>
    /\ messagebox_shown' = "Quiz Over"
    /\ pc' = PcAfterResults

\* ---------------------------------------------------------- next_question
\* The comparison of line 172 off by one.
HasNext_OffByOne(index, total) == index <= total

\* The comparison of line 172 ending the quiz one question early.
HasNext_EndsEarly(index, total) == index < total - 1

\* Line 172: is there a question at `index`?
HasNext(index, total) == index < total

next_question ==
    /\ current_question_index' = current_question_index + 1
    /\ IF HasNext(current_question_index + 1, total_questions)
       THEN /\ load_question(quiz_questions, current_question_index + 1,
                             alternative_buttons, next_button)
            /\ event' = Ev("advance", -1,
                           IF LoadQuestionRaises(quiz_questions,
                                                 current_question_index + 1)
                           THEN "raised" ELSE "ok")
            /\ UNCHANGED <<pc, messagebox_shown, final_text>>
       ELSE /\ show_final_results
            /\ event' = Ev("advance", -1, "completed")
            /\ UNCHANGED <<question_label, alternative_buttons,
                           feedback_label, next_button, read_index>>
    /\ UNCHANGED <<source, has_state, quiz_questions, score, total_questions,
                   score_label, nCorrect, nIncorrect>>

\* A click on the Next button.
ClickNext ==
    /\ pc = "mainloop"
    /\ IF next_button = "normal"
       THEN next_question
       ELSE /\ event' = Ev("advance", -1, "ignored")
            /\ UNCHANGED <<pc, source, has_state, quiz_questions, score,
                           total_questions, current_question_index,
                           question_label, alternative_buttons,
                           feedback_label, score_label, next_button,
                           messagebox_shown, final_text, nCorrect, nIncorrect,
                           read_index>>

\* ------------------------------------------------------------------- Spec
Next ==
    \/ Construct
    \/ \E i \in 0..(NumButtons - 1) : ClickAlternative(i)
    \/ ClickNext

Spec == Init /\ [][Next]_vars

\* ------------------------------------------------ the session, as the spec
\* names its states
AnswersEnabled ==
    /\ Len(alternative_buttons) = NumButtons
    /\ \A b \in 1..NumButtons : alternative_buttons[b].state = "normal"

InProgress == pc = "mainloop" /\ AnswersEnabled /\ next_button = "disabled"

AwaitingAdvance == pc = "mainloop" /\ ~AnswersEnabled /\ next_button = "normal"

Completed == pc = "exited" /\ final_text # <<>>

TypeOK ==
    /\ pc \in {"main", "mainloop", "exited", "crashed"}
    /\ has_state \in BOOLEAN
    /\ score \in Int
    /\ total_questions \in Nat
    /\ current_question_index \in Nat
    /\ next_button \in {"none", "disabled", "normal"}

\* ----------------------------------------- show_final_results on its own
\* The result computation applied to every (score, total) pair of the
\* bounded range, whether or not a run of answers produces the pair.
TierInit ==
    /\ pc = "mainloop"
    /\ source = [kind |-> "list", data |-> <<>>]
    /\ has_state = TRUE
    /\ quiz_questions = <<>>
    /\ total_questions \in 0..MaxTotal
    /\ score \in (-total_questions)..total_questions
    /\ current_question_index = total_questions
    /\ question_label = ""
    /\ alternative_buttons = DisableAll(NewButtons)
    /\ feedback_label = NoFeedback
    /\ score_label = score
    /\ next_button = "normal"
    /\ messagebox_shown = "none"
    /\ final_text = <<>>
    /\ event = NoEvent
    /\ nCorrect = 0
    /\ nIncorrect = 0
    /\ read_index = -1

TierStep ==
    /\ pc = "mainloop"
    /\ show_final_results
    /\ event' = Ev("advance", -1, "completed")
    /\ UNCHANGED <<source, has_state, quiz_questions, score, total_questions,
                   current_question_index, question_label,
                   alternative_buttons, feedback_label, score_label,
                   next_button, nCorrect, nIncorrect, read_index>>

TierSpec == TierInit /\ [][TierStep]_vars

\* ------------------------------------------------------- shared vocabulary
\* The Question invariant of the data model: at least two alternatives and
\* a correct_answer that indexes one of them.
WellFormedQuestion(q) ==
    /\ Len(q.alternatives) >= 2
    /\ q.correct_answer \in 0..(Len(q.alternatives) - 1)

WellFormedSet(qs) == \A k \in 1..Len(qs) : WellFormedQuestion(qs[k])

\* A choice that indexes an alternative of the current question.
ValidChoice(i) == i \in 0..(Len(CurrentQuestion.alternatives) - 1)

\* Questions that went through the comparison of check_answer so far.
Answered == nCorrect + nIncorrect

Tier(message) ==
    IF message = MsgPerfect THEN "Perfect"
    ELSE IF message = MsgPass THEN "Pass"
    ELSE "Fail"

\* The session's position and score, and what the user sees of them.
SessionData == <<score, current_question_index, total_questions,
                 quiz_questions, next_button, alternative_buttons, pc,
                 final_text>>

\* ---------------------------------------------------------------------- C1
\* C1: an answer click in InProgress on an alternative of the current
\* question (of a question list that satisfies the Question invariant) adds
\* exactly +1 to score when the choice is the correct index and exactly -1
\* otherwise, and leaves the session in AwaitingAdvance at the same index.
C1_SubmitScoresAndAwaits ==
    [][\A i \in 0..(NumButtons - 1) :
          (/\ InProgress
           /\ WellFormedSet(quiz_questions)
           /\ ValidChoice(i)
           /\ ClickAlternative(i))
          => /\ score' = IF i = CurrentQuestion.correct_answer
                         THEN score + 1 ELSE score - 1
             /\ AwaitingAdvance'
             /\ current_question_index' = current_question_index]_vars

\* ---------------------------------------------------------------------- C2
\* C2: in every reachable state score is the number of correct answers minus
\* the number of incorrect ones over the N questions answered so far, N is
\* index or index + 1 and never more than total_questions, -N <= score <= N,
\* and at completion -total_questions <= score <= total_questions.
C2_ScoreIsCorrectMinusIncorrect ==
    /\ score = nCorrect - nIncorrect
    /\ -Answered <= score /\ score <= Answered
    /\ Answered \in {current_question_index, current_question_index + 1}
    /\ Answered <= total_questions
    /\ Completed => /\ Answered = total_questions
                    /\ -total_questions <= score
                    /\ score <= total_questions
                    /\ final_text[1].score = score

C2_Witness ==
    /\ Completed
    /\ nCorrect = 1
    /\ nIncorrect = 1
    /\ score = 0

QuestionShown ==
    LET q == quiz_questions[current_question_index + 1] IN
    /\ question_label = q.question
    /\ \A b \in 1..NumButtons :
          b <= Len(q.alternatives) => alternative_buttons[b].text = q.alternatives[b]

C6_IndexInRange ==
    /\ 0 <= current_question_index
    /\ current_question_index <= total_questions
    /\ read_index # -1 => read_index < total_questions
    /\ (pc = "mainloop" /\ AnswersEnabled)
          => current_question_index < total_questions

\* ---------------------------------------------------------------------- C7
\* C7: the tier shown is Perfect if score = total, else Pass if
\* score >= floor(total / 2), else Fail, for every total and every score in
\* [-total, total]; in particular (10,5) Pass, (10,4) Fail, (10,10) Perfect,
\* (5,2) Pass and (5,1) Fail.
RefTier(s, t) ==
    IF s = t THEN "Perfect"
    ELSE IF 2 * s >= t - 1 THEN "Pass"
    ELSE "Fail"

ShownTier == Tier(final_text[1].message)

C7_TierMatchesReference ==
    final_text # <<>> =>
       LET s == final_text[1].score
           t == final_text[1].total IN
       /\ s = score /\ t = total_questions
       /\ ShownTier = RefTier(s, t)
       /\ (t = 10 /\ s = 5)  => ShownTier = "Pass"
       /\ (t = 10 /\ s = 4)  => ShownTier = "Fail"
       /\ (t = 10 /\ s = 10) => ShownTier = "Perfect"
       /\ (t = 5 /\ s = 2)   => ShownTier = "Pass"
       /\ (t = 5 /\ s = 1)   => ShownTier = "Fail"

C7_Witness ==
    /\ final_text # <<>>
    /\ final_text[1].total = 5
    /\ final_text[1].score = 2
    /\ ShownTier = "Pass"

\* ---------------------------------------------------------------------- C8
\* C8: when the loaded question list is empty the session starts Completed
\* without presenting a question, and the final result is score 0, total 0,
\* tier Perfect.
C8_EmptyListStartsCompleted ==
    (pc # "main" /\ source.kind = "list" /\ source.data = <<>>)
       => /\ Completed
          /\ question_label = ""
          /\ final_text[1].score = 0
          /\ final_text[1].total = 0
          /\ ShownTier = "Perfect"

\* ---------------------------------------------------------------------- C9
\* C9: an answer click whose index is not an alternative of the current
\* question changes neither score nor the session's state; a button beyond
\* the alternatives of a short question is never scored.
C9_InvalidChoiceNotScored ==
    [][\A i \in 0..(NumButtons - 1) :
          (/\ pc = "mainloop"
           /\ WellFormedSet(quiz_questions)
           /\ ~ValidChoice(i)
           /\ ClickAlternative(i))
          => /\ UNCHANGED SessionData
             /\ UNCHANGED <<nCorrect, nIncorrect>>]_vars

\* --------------------------------------------------------------------- C10
\* C10: when a record of the source violates the Question invariant the
\* load fails before any session state exists and before any question is
\* presented.
C10_MalformedRejectedAtLoad ==
    (source.kind = "list" /\ ~WellFormedSet(source.data))
       => /\ ~has_state
          /\ question_label = ""
          /\ pc \in {"main", "exited"}

\* --------------------------------------------------------------------- C11
\* C11: when quiz_questions.json is missing or does not parse, the error box
\* is shown and the program ends without a session: score, index and
\* total_questions are never initialised, no widget exists and no answer or
\* Next event ever occurs.
C11_LoadErrorEndsProgram ==
    (source.kind \in {"missing", "invalid"} /\ pc # "main")
       => /\ pc = "exited"
          /\ messagebox_shown = LoadErrorMessage(source)
          /\ ~has_state
          /\ alternative_buttons = <<>>
          /\ next_button = "none"
          /\ event = Ev("init", -1, "load_error")
          /\ Answered = 0
          /\ final_text = <<>>

C11_Witness ==
    /\ source.kind = "invalid"
    /\ pc = "exited"
    /\ messagebox_shown = "Invalid format in quiz_questions.json!"
    /\ event.op = "init"

\* --------------------------------------------------------------------- C12
\* C12: once the results have been shown the session is over for good: no
\* later step changes score, index, the result or anything else of the
\* session, and no answer is accepted any more.
ResultShown == final_text # <<>>

C12_CompletedIsTerminal ==
    [][ResultShown
          => /\ UNCHANGED SessionData
             /\ UNCHANGED <<nCorrect, nIncorrect, score_label>>
             /\ ResultShown']_vars

C12_Witness ==
    /\ Completed
    /\ event = Ev("advance", -1, "completed")
    /\ current_question_index = total_questions
    /\ ~ENABLED Next

\* --------------------------------------------------------------------- C13
\* C13: a final result exists only when index = total_questions and every
\* question has been answered, never earlier; it reports total_questions as
\* the total and the session's accumulated score as the score.
C13_ResultOnlyAtCompletion ==
    /\ ResultShown
          => /\ current_question_index = total_questions
             /\ Answered = total_questions
             /\ final_text[1].total = total_questions
             /\ final_text[1].total = Len(quiz_questions)
             /\ final_text[1].score = score
             /\ final_text[1].score = nCorrect - nIncorrect
    /\ ResultShown <=> (messagebox_shown = "Quiz Over")
    /\ (has_state /\ current_question_index < total_questions) => ~ResultShown

C13_Witness ==
    /\ ResultShown
    /\ total_questions = 2
    /\ nCorrect = 2
    /\ final_text[1].score = 2
    /\ final_text[1].total = 2

\* --------------------------------------------------------------------- C15
\* The user keeps clicking: an answer click and a Next click that can
\* change something eventually happen.
FairSpec ==
    /\ Spec
    /\ WF_vars(Construct)
    /\ WF_vars(\E i \in 0..(NumButtons - 1) : ClickAlternative(i))
    /\ WF_vars(ClickNext)

\* C15: for a non-empty question list that satisfies the Question
\* invariant, a session whose user keeps answering and clicking Next reaches
\* Completed, with exactly total_questions answers scored.
C15_FairSessionCompletes ==
    (InProgress /\ WellFormedSet(quiz_questions))
       ~> (Completed /\ Answered = total_questions)

\* --------------------------------------------------------------------- C16
\* The two-question set of the end-to-end scenario: Q1 (a, b, c) with
\* correct answer 1 and Q2 (x, y, z) with correct answer 0.
EndToEndSet == <<Record(1, 3, 1), Record(2, 3, 0)>>

\* C16: on the end-to-end set, answering 1 gives score 1 and "Correct!";
\* Next then shows Q2 and the quiz is not over; answering 2 gives score 0
\* and "Incorrect!" with the text "x" of alternative 0; Next then ends the
\* quiz with the result score 0, total 2, tier Fail.
C16_EndToEndTrace ==
    [][(quiz_questions = EndToEndSet)
       => /\ (InProgress /\ current_question_index = 0 /\ ClickAlternative(1))
                => /\ score' = 1
                   /\ feedback_label' = FeedbackCorrect
                   /\ score_label' = 1
                   /\ AwaitingAdvance'
          /\ (AwaitingAdvance /\ current_question_index = 0 /\ ClickNext)
                => /\ ~ResultShown'
                   /\ InProgress'
                   /\ current_question_index' = 1
                   /\ question_label' = "Q2"
          /\ (InProgress /\ current_question_index = 1 /\ score = 1
                /\ ClickAlternative(2))
                => /\ score' = 0
                   /\ feedback_label' = FeedbackIncorrect("x")
                   /\ score_label' = 0
                   /\ AwaitingAdvance'
          /\ (AwaitingAdvance /\ current_question_index = 1 /\ score = 0
                /\ ClickNext)
                => /\ Completed'
                   /\ final_text' = <<[score |-> 0, total |-> 2,
                                       message |-> MsgFail]>>
                   /\ Tier(MsgFail) = "Fail"]_vars

C16_Witness ==
    /\ quiz_questions = EndToEndSet
    /\ Completed
    /\ nCorrect = 1
    /\ feedback_label = FeedbackIncorrect("x")
    /\ final_text = <<[score |-> 0, total |-> 2, message |-> MsgFail]>>

\* --------------------------------------------------------------------- C17
\* C17: while the quiz runs (question list satisfying the Question
\* invariant), exactly one of {all answer buttons enabled, Next enabled}
\* holds; the number of answered questions is index while the answers are
\* enabled and index + 1 while Next is enabled.
NextEnabled == next_button = "normal"

C17_ExactlyOneEnabled ==
    (pc = "mainloop" /\ WellFormedSet(quiz_questions))
       => /\ AnswersEnabled \/ NextEnabled
          /\ ~(AnswersEnabled /\ NextEnabled)
          /\ AnswersEnabled => Answered = current_question_index
          /\ NextEnabled => Answered = current_question_index + 1

\* --------------------------------------------------------------------- C18
\* C18: an answer click leaves index, total_questions and the question list
\* unchanged; a Next click leaves score, total_questions and the question
\* list unchanged; total_questions is always the length of the loaded list.
C18_FrameConditions ==
    /\ [](has_state => total_questions = Len(quiz_questions))
    /\ [](has_state => quiz_questions = source.data)
    /\ [][(\E i \in 0..(NumButtons - 1) : ClickAlternative(i))
            => UNCHANGED <<current_question_index, total_questions,
                           quiz_questions>>]_vars
    /\ [][ClickNext
            => UNCHANGED <<score, total_questions, quiz_questions, nCorrect,
                           nIncorrect>>]_vars

C18_Witness ==
    /\ InProgress
    /\ event = Ev("advance", -1, "ok")
    /\ current_question_index = 1
    /\ score = -1
    /\ total_questions = 2
    /\ Len(quiz_questions) = 2

\* ------------------------------------------- the last question of long runs
\* A quiz of 1..MaxTotal three-alternative questions (correct answer 0),
\* taken up when its last question is on screen: `c` of the earlier answers
\* were correct and the others were not.
LongList(total) == [k \in 1..total |-> Record(k, NumButtons, 0)]

LastInit ==
    \E total \in 1..MaxTotal : \E c \in 0..(total - 1) :
       /\ pc = "mainloop"
       /\ source = [kind |-> "list", data |-> LongList(total)]
       /\ has_state = TRUE
       /\ quiz_questions = LongList(total)
       /\ total_questions = TotalOf(LongList(total))
       /\ current_question_index = total - 1
       /\ nCorrect = c
       /\ nIncorrect = (total - 1) - c
       /\ score = c - ((total - 1) - c)
       /\ score_label = c - ((total - 1) - c)
       /\ question_label = LoadedLabel(LongList(total), total - 1, "")
       /\ alternative_buttons =
             LoadedButtons(LongList(total), total - 1, NewButtons)
       /\ feedback_label = NoFeedback
       /\ next_button = NextAfterLoad(NewNextButton)
       /\ messagebox_shown = "none"
       /\ final_text = <<>>
       /\ event = IF total = 1 THEN Ev("init", -1, "ok")
                  ELSE Ev("advance", -1, "ok")
       /\ read_index = total - 1

LastNext ==
    \/ \E i \in 0..(NumButtons - 1) : ClickAlternative(i)
    \/ ClickNext

LastQuestionSpec == LastInit /\ [][LastNext]_vars

\* --------------------------------------------------------------------- C19
\* C19: when a quiz over a non-empty list is completed, the tier is Perfect
\* iff every question was answered correctly; with at least one incorrect
\* answer score <= total_questions - 2 and the tier is not Perfect.
C19_PerfectIffAllCorrect ==
    (Completed /\ total_questions > 0)
       => /\ (ShownTier = "Perfect") <=> (nCorrect = total_questions)
          /\ (nCorrect = total_questions) <=> (nIncorrect = 0)
          /\ nIncorrect >= 1 => /\ score <= total_questions - 2
                                /\ final_text[1].score <= total_questions - 2
                                /\ ShownTier # "Perfect"

C19_Witness ==
    /\ Completed
    /\ total_questions = 3
    /\ nIncorrect = 1
    /\ score = 1
    /\ ShownTier = "Pass"

\* --------------------------------------------------------------------- C20
\* C20: at completion score = 2 * (number correct) - total_questions, so
\* score and total_questions have the same parity, and for total_questions
\* >= 2 a run with at most half of the answers correct ends with tier Fail.
C20_ParityAndHalfFails ==
    Completed
       => /\ score = 2 * nCorrect - total_questions
          /\ (score + total_questions) % 2 = 0
          /\ final_text[1].score = score
          /\ (total_questions >= 2 /\ 2 * nCorrect <= total_questions)
                => ShownTier = "Fail"

C20_Witness ==
    /\ Completed
    /\ total_questions = 4
    /\ nCorrect = 2
    /\ score = 0
    /\ ShownTier = "Fail"

====
